---- MODULE Spec2Model ----
(***************************************************************************)
(* Model of fhir-spec-processor/generate_dependency_tree.py.               *)
(*                                                                         *)
(* main() reads every .graphql document of a directory, records the raw    *)
(* references of each document under its main resource, records which      *)
(* resource owns each defined type, builds dependency_map, levels it with  *)
(* graphlib.TopologicalSorter into CSV rows and expands it into the JSON   *)
(* tree with the memoised recursion build_node.                            *)
(*                                                                         *)
(* A document's text is represented by what the three regular expressions  *)
(* of the extractor find in it: the sequence of its type/interface         *)
(* declarations, each with its name, the interfaces named in its           *)
(* implements clause and the capitalised field types of its body.  All     *)
(* type names of the model are capitalised identifiers of two or more      *)
(* characters, the only ones the patterns match.                           *)
(***************************************************************************)
EXTENDS Naturals, Sequences, FiniteSets

VARIABLES
    pc,                   \* position of main()
    fs,                   \* content of spec_dir: file stem -> document
    graphql_files,        \* line 47: the listing of spec_dir, in os.listdir order
    file_data,            \* line 46: main resource -> raw_deps
    type_to_resource_map, \* line 49: defined type -> main resource
    dependency_map,       \* line 61: resource -> set of dependencies
    ts,                   \* line 74: the TopologicalSorter
    csv,                  \* rows written to dependency_tree.csv after the header
    level,                \* line 81
    stdout,               \* messages printed
    root_list,            \* line 109: sorted(list(root_nodes))
    memo,                 \* line 98
    stack,                \* the frames of build_node in progress
    json_tree             \* line 109: the trees built so far

vars == <<pc, fs, graphql_files, file_data, type_to_resource_map, dependency_map,
          ts, csv, level, stdout, root_list, memo, stack, json_tree>>

-----------------------------------------------------------------------------
(* Names *)

\* Lines 9-14.
SCALAR_TYPES ==
    {"ID", "String", "Boolean", "uri", "code", "markdown", "instant",
     "positiveInt", "dateTime", "Int", "Float", "date", "base64Binary",
     "canonical", "oid", "time", "unsignedInt", "url", "uuid", "xhtml",
     "decimal"}

\* The file stems of the modelled directory; every file is <stem>.graphql.
FileStems == {"account", "basic", "claim"}

\* str.capitalize() of the stem (line 29).
Capitalize == [account |-> "Account", basic |-> "Basic", claim |-> "Claim"]

\* The type a document is written for, and the helper type documents may
\* declare beside it.
PrimaryType == Capitalize
HelperType == "Period"

\* Python's ordering of the strings of the model (code-point order), as the
\* ascending sequence of all names.
NameOrder == <<"Account", "Basic", "Claim", "Period", "String">>

Rank(n) == CHOOSE i \in 1..Len(NameOrder) : NameOrder[i] = n

NoneValue == "None"

EmptyMap == [x \in {} |-> {}]

\* d[k] = v on a dict.
Put(d, k, v) == [x \in (DOMAIN d) \cup {k} |-> IF x = k THEN v ELSE d[x]]

\* dict.get(k): None when k is no key.
Get(d, k) == IF k \in DOMAIN d THEN d[k] ELSE NoneValue

\* dependency_map.get(node, []) (lines 88, 103).
GetDeps(d, k) == IF k \in DOMAIN d THEN d[k] ELSE {}

LessEq(a, b) == Rank(a) <= Rank(b)

\* sorted(list(S)) for a set of names.
RECURSIVE Sorted(_)
Sorted(S) ==
    IF S = {} THEN <<>>
    ELSE LET m == CHOOSE x \in S : \A y \in S : LessEq(x, y)
         IN  <<m>> \o Sorted(S \ {m})

Range(s) == {s[i] : i \in DOMAIN s}

-----------------------------------------------------------------------------
(* The extractor, lines 16-39 *)

MarkerInterfaces == <<"IDomainResource", "IResource">>

\* Line 18: the names of all type and interface declarations, in order.
get_defined_types(content) == [i \in DOMAIN content |-> content[i].name]

\* Line 23: "type <Name> implements ... <interface>" matches declaration i.
Implements(content, i, interface) ==
    /\ content[i].kind = "type"
    /\ interface \in content[i].implements

\* re.search: the first declaration the pattern of line 23 matches, or 0.
FirstImplementing(content, interface) ==
    IF \E i \in DOMAIN content : Implements(content, i, interface)
    THEN CHOOSE i \in DOMAIN content :
            /\ Implements(content, i, interface)
            /\ \A j \in DOMAIN content :
                  Implements(content, j, interface) => i <= j
    ELSE 0

\* Line 26: the first declaration made with the keyword type, or 0.
FirstType(content) ==
    IF \E i \in DOMAIN content : content[i].kind = "type"
    THEN CHOOSE i \in DOMAIN content :
            /\ content[i].kind = "type"
            /\ \A j \in DOMAIN content : content[j].kind = "type" => i <= j
    ELSE 0

\* Lines 20-29.
get_main_resource_name(content, filename) ==
    IF FirstImplementing(content, MarkerInterfaces[1]) # 0
    THEN content[FirstImplementing(content, MarkerInterfaces[1])].name
    ELSE IF FirstImplementing(content, MarkerInterfaces[2]) # 0
    THEN content[FirstImplementing(content, MarkerInterfaces[2])].name
    ELSE IF FirstType(content) # 0
    THEN content[FirstType(content)].name
    ELSE Capitalize[filename]

\* Lines 31-39: the field types of every declaration body.
get_dependencies_from_content(content) ==
    UNION {content[i].fields : i \in DOMAIN content}

-----------------------------------------------------------------------------
(* Reading the documents, lines 46-59 *)

\* Lines 58-59: every defined type now belongs to main_resource.
AssignOwner(map, defined_types, main_resource) ==
    [t \in (DOMAIN map) \cup Range(defined_types) |->
        IF t \in Range(defined_types) THEN main_resource ELSE map[t]]

\* One iteration of the loop of line 50 on the pair (file_data, map).
ReadFile(acc, dir, filename) ==
    LET content == dir[filename]
        main_resource == get_main_resource_name(content, filename)
        defined_types == get_defined_types(content)
        raw_deps == get_dependencies_from_content(content)
    IN  [file_data |-> Put(acc.file_data, main_resource, raw_deps),
         type_to_resource_map |->
            AssignOwner(acc.type_to_resource_map, defined_types, main_resource)]

\* The loop of lines 50-59 over files[1..k].
RECURSIVE ReadFiles(_, _, _)
ReadFiles(dir, files, k) ==
    IF k = 0 THEN [file_data |-> EmptyMap, type_to_resource_map |-> EmptyMap]
    ELSE ReadFile(ReadFiles(dir, files, k - 1), dir, files[k])

-----------------------------------------------------------------------------
(* The dependency graph, lines 61-71 *)

\* Line 64.
IsSkipped(dep, resource) == dep \in SCALAR_TYPES \/ dep = resource

\* Line 70 testing only that the dependency is a known type.
IsExternalKnown(dep, resource, map) == dep \in DOMAIN map

\* Line 70.
IsExternal(dep, resource, map) == Get(map, dep) # resource

\* Line 71 adding the owner of the referenced type where it has one.
EdgeTargetOwner(dep, map) == IF dep \in DOMAIN map THEN map[dep] ELSE dep

\* Line 71: what is added to dependency_map[resource] for dep.
EdgeTarget(dep, map) == dep

DependenciesOf(resource, fd, map) ==
    {EdgeTarget(dep, map) :
        dep \in {d \in fd[resource] :
                    ~IsSkipped(d, resource) /\ IsExternal(d, resource, map)}}

\* Lines 61-71.  dependency_map is a defaultdict: a resource becomes a key
\* when its first dependency is added.
BuildDependencyMap(fd, map) ==
    [resource \in {r \in DOMAIN fd : DependenciesOf(r, fd, map) # {}} |->
        DependenciesOf(resource, fd, map)]

-----------------------------------------------------------------------------
(* graphlib.TopologicalSorter as main() uses it, lines 73-91 *)

\* Line 73 handing the sorter the keys without their dependencies.
GraphWithoutEdges(dm) == [resource \in DOMAIN dm |-> {}]

\* Line 73.
Graph(dm) == [resource \in DOMAIN dm |-> dm[resource]]

\* The nodes of the sorter: every key and every predecessor it was given.
SorterNodes(graph) == (DOMAIN graph) \cup UNION {graph[n] : n \in DOMAIN graph}

\* Line 74: TopologicalSorter(graph).
TopologicalSorter(graph) ==
    [npredecessors |->
        [n \in SorterNodes(graph) |-> Cardinality(GetDeps(graph, n))],
     successors |->
        [n \in SorterNodes(graph) |-> {m \in DOMAIN graph : n \in graph[m]}],
     ready_nodes |-> {},
     npassedout |-> 0,
     nfinished |-> 0]

\* Nodes left after removing, again and again, every node nothing left
\* depends on: empty exactly when the sorter's graph has no cycle.
RECURSIVE Unsortable(_, _)
Unsortable(t, S) ==
    LET free == {n \in S : t.successors[n] \cap S = {}}
    IN  IF free = {} THEN S ELSE Unsortable(t, S \ free)

\* A cycle search that sees only a node depending on itself.
FindSelfLoop(t) == \E n \in DOMAIN t.npredecessors : n \in t.successors[n]

\* prepare() finds a cycle (and raises CycleError), line 75.
FindCycle(t) == Unsortable(t, DOMAIN t.npredecessors) # {}

\* prepare() when it returns: the nodes without predecessors are ready.
Prepared(t) ==
    [t EXCEPT !.ready_nodes =
        {n \in DOMAIN t.npredecessors : t.npredecessors[n] = 0}]

\* Line 82 looking only at nodes handed out and not yet done.
is_active_pending(t) == t.nfinished < t.npassedout

\* Line 82.
is_active(t) == t.nfinished < t.npassedout \/ t.ready_nodes # {}

\* Line 83: get_ready() hands out the ready nodes.
get_ready(t) ==
    [t EXCEPT !.ready_nodes = {},
              !.npassedout = t.npassedout + Cardinality(t.ready_nodes)]

\* done(node) releasing a successor as soon as one predecessor is done.
done_eager(t, node) ==
    [t EXCEPT !.npredecessors =
                [n \in DOMAIN t.npredecessors |->
                    IF n \in t.successors[node] THEN 0 ELSE t.npredecessors[n]],
              !.ready_nodes = t.ready_nodes \cup t.successors[node],
              !.nfinished = t.nfinished + 1]

\* Line 90: done(node) releases the successors whose last predecessor it was.
done(t, node) ==
    LET npred == [n \in DOMAIN t.npredecessors |->
                    IF n \in t.successors[node]
                    THEN t.npredecessors[n] - 1
                    ELSE t.npredecessors[n]]
    IN  [t EXCEPT !.npredecessors = npred,
                  !.ready_nodes = t.ready_nodes \cup
                        {n \in t.successors[node] : npred[n] = 0},
                  !.nfinished = t.nfinished + 1]

\* Lines 88-89: the row written for node.
Row(lvl, node, dm) ==
    [level |-> lvl, resource |-> node, dependencies |-> Sorted(GetDeps(dm, node))]

\* Lines 87-90 over ready_nodes[i..]: rows written, nodes marked done.
RECURSIVE WriteLevel(_, _, _, _)
WriteLevel(st, ready_nodes, i, dm) ==
    IF i > Len(ready_nodes) THEN st
    ELSE WriteLevel(
            [st EXCEPT !.csv = Append(st.csv, Row(st.level, ready_nodes[i], dm)),
                       !.ts = done(st.ts, ready_nodes[i])],
            ready_nodes, i + 1, dm)

CycleMessage == "Error: Cycle detected in dependencies."

\* One iteration of the loop of line 82 on [ts, csv, level, broke].
LevelStep(st, dm) ==
    LET ready_nodes == Sorted(st.ts.ready_nodes)
        handed == [st EXCEPT !.ts = get_ready(st.ts)]
    IN  IF ready_nodes = <<>>
        THEN [handed EXCEPT !.broke = TRUE]
        ELSE LET written == WriteLevel(handed, ready_nodes, 1, dm)
             IN  [written EXCEPT !.level = written.level + 1]

\* The loop of lines 82-91 run to its end.
RECURSIVE LevelLoop(_, _)
LevelLoop(st, dm) ==
    IF st.broke \/ ~is_active(st.ts) THEN st
    ELSE LevelLoop(LevelStep(st, dm), dm)

-----------------------------------------------------------------------------
(* The JSON tree, lines 95-109 *)

\* Line 95.
AllDependencies(dm) == UNION {dm[r] : r \in DOMAIN dm}

\* Line 96 without the subtraction.
RootNodesAllKeys(dm) == DOMAIN dm

\* Line 96.
RootNodes(dm) == (DOMAIN dm) \ AllDependencies(dm)

\* Line 103.
NodeDependencies(resource_name, dm) == Sorted(GetDeps(dm, resource_name))

\* Line 102: a node without the children key.
Leaf(resource_name) == [name |-> resource_name]

\* Lines 102-105: a node with its children.
Node(resource_name, children) == [name |-> resource_name, children |-> children]

\* build_node(resource_name) returns at once: from memo (line 100), or
\* because the resource has no dependencies (line 104).
ReturnsAtOnce(resource_name, m, dm) ==
    resource_name \in DOMAIN m \/ NodeDependencies(resource_name, dm) = <<>>

\* A memoised resource returned as a bare node.
ReturnedBare(resource_name, m) == Leaf(resource_name)

Returned(resource_name, m) ==
    IF resource_name \in DOMAIN m THEN m[resource_name] ELSE Leaf(resource_name)

\* The frame build_node(resource_name) opens at line 105.
Frame(resource_name, dm) ==
    [name |-> resource_name,
     dependencies |-> NodeDependencies(resource_name, dm),
     children |-> <<>>]

\* The value build_node returns goes to its caller: the frame below (line
\* 105) or the list of trees (line 109).
Deliver(stk, trees, value) ==
    IF stk = <<>>
    THEN [stack |-> stk, json_tree |-> Append(trees, value)]
    ELSE [stack |-> [stk EXCEPT ![Len(stk)].children = Append(@, value)],
          json_tree |-> trees]

-----------------------------------------------------------------------------
(* The directories the model runs main() on *)

\* Most field types in a document of the first family, and of the second.
MaxFields == 2
MaxOwnerFields == 1

Decl(name, implements, fields) ==
    [kind |-> "type", name |-> name, implements |-> implements, fields |-> fields]

FieldSets(types, max) == {S \in SUBSET types : Cardinality(S) <= max}

\* First family: any of the three files, each declaring its own type with
\* up to MaxFields field types; Period, and a type whose file is missing,
\* are declared nowhere.
GraphFieldTypes == {"Account", "Basic", "Claim", "Period"}

GraphDirectories ==
    UNION {
        {[f \in D |-> <<Decl(PrimaryType[f], {}, sel[f])>>] :
            sel \in [D -> FieldSets(GraphFieldTypes, MaxFields)]} :
        D \in SUBSET FileStems}

\* Second family: two files, each with up to two declarations among its
\* own type (plain or implementing a marker interface) and the helper type,
\* in either order.  The first declaration has up to MaxOwnerFields field
\* types among the file's own type, the helper type, a type declared
\* nowhere and a scalar.
OwnerStems == {"account", "basic"}
OwnerFieldTypes(f) == {PrimaryType[f], HelperType, "Claim", "String"}

Declarations(f) ==
    {Decl(PrimaryType[f], impl, {}) :
        impl \in {{}, {"IResource"}, {"IDomainResource"}}}
    \cup {Decl(HelperType, {}, {})}

Shapes(f) ==
    {<<>>}
    \cup {<<d>> : d \in Declarations(f)}
    \cup {<<d[1], d[2]>> :
            d \in {e \in Declarations(f) \X Declarations(f) : e[1].name # e[2].name}}

OwnerDocuments(f) ==
    {<<>>} \cup
    {[sh EXCEPT ![1].fields = S] :
        sh \in Shapes(f) \ {<<>>},
        S \in FieldSets(OwnerFieldTypes(f), MaxOwnerFields)}

OwnerDirectories ==
    {dir \in [OwnerStems -> UNION {OwnerDocuments(f) : f \in OwnerStems}] :
        \A f \in OwnerStems : dir[f] \in OwnerDocuments(f)}

\* os.listdir: the files of the directory in any order.
Listings(dir) ==
    {files \in [1..Cardinality(DOMAIN dir) -> DOMAIN dir] :
        \A i, j \in DOMAIN files : i # j => files[i] # files[j]}

EmptySorter == TopologicalSorter(EmptyMap)

Init ==
    /\ fs \in GraphDirectories \cup OwnerDirectories
    /\ graphql_files \in Listings(fs)
    /\ pc = "read"
    /\ file_data = EmptyMap
    /\ type_to_resource_map = EmptyMap
    /\ dependency_map = EmptyMap
    /\ ts = EmptySorter
    /\ csv = <<>>
    /\ level = 0
    /\ stdout = <<>>
    /\ root_list = <<>>
    /\ memo = EmptyMap
    /\ stack = <<>>
    /\ json_tree = <<>>

-----------------------------------------------------------------------------
(* main(), lines 41-114 *)

\* Lines 46-59.
ReadDocuments ==
    /\ pc = "read"
    /\ LET read == ReadFiles(fs, graphql_files, Len(graphql_files))
       IN  /\ file_data' = read.file_data
           /\ type_to_resource_map' = read.type_to_resource_map
    /\ pc' = "graph"
    /\ UNCHANGED <<fs, graphql_files, dependency_map, ts, csv, level, stdout,
                   root_list, memo, stack, json_tree>>

\* Lines 61-74.
BuildGraph ==
    /\ pc = "graph"
    /\ dependency_map' = BuildDependencyMap(file_data, type_to_resource_map)
    /\ ts' = TopologicalSorter(Graph(dependency_map'))
    /\ pc' = "prepare"
    /\ UNCHANGED <<fs, graphql_files, file_data, type_to_resource_map, csv, level,
                   stdout, root_list, memo, stack, json_tree>>

\* Line 75 raising graphlib.CycleError, which nothing catches: main() ends.
PrepareRaises ==
    /\ pc = "prepare"
    /\ FindCycle(ts)
    /\ pc' = "CycleError"
    /\ UNCHANGED <<fs, graphql_files, file_data, type_to_resource_map,
                   dependency_map, ts, csv, level, stdout, root_list, memo, stack,
                   json_tree>>

\* Lines 75-81.
PrepareReturns ==
    /\ pc = "prepare"
    /\ ~FindCycle(ts)
    /\ ts' = Prepared(ts)
    /\ stdout' = Append(stdout, "Generating CSV output")
    /\ level' = 0
    /\ pc' = "csv"
    /\ UNCHANGED <<fs, graphql_files, file_data, type_to_resource_map,
                   dependency_map, csv, root_list, memo, stack, json_tree>>

\* Lines 82-91, one iteration; with no ready node, lines 85-86 and 92.
LevelIteration ==
    /\ pc = "csv"
    /\ is_active(ts)
    /\ LET st == LevelStep([ts |-> ts, csv |-> csv, level |-> level,
                            broke |-> FALSE], dependency_map)
       IN  /\ ts' = st.ts
           /\ csv' = st.csv
           /\ level' = st.level
           /\ IF st.broke
              THEN /\ stdout' = stdout \o <<CycleMessage, "CSV generation complete.">>
                   /\ pc' = "roots"
              ELSE /\ stdout' = stdout
                   /\ pc' = "csv"
    /\ UNCHANGED <<fs, graphql_files, file_data, type_to_resource_map,
                   dependency_map, root_list, memo, stack, json_tree>>

\* Line 82 false, line 92.
CsvComplete ==
    /\ pc = "csv"
    /\ ~is_active(ts)
    /\ stdout' = Append(stdout, "CSV generation complete.")
    /\ pc' = "roots"
    /\ UNCHANGED <<fs, graphql_files, file_data, type_to_resource_map,
                   dependency_map, ts, csv, level, root_list, memo, stack,
                   json_tree>>

\* Lines 95-98 and the sorted list of line 109.
ChooseRoots ==
    /\ pc = "roots"
    /\ root_list' = Sorted(RootNodes(dependency_map))
    /\ memo' = EmptyMap
    /\ pc' = "tree"
    /\ UNCHANGED <<fs, graphql_files, file_data, type_to_resource_map,
                   dependency_map, ts, csv, level, stdout, stack, json_tree>>

\* The next call of build_node: for the next root (line 109) when no call
\* is in progress, else for the next dependency of the innermost call
\* (line 105).
CanCall ==
    IF stack = <<>>
    THEN Len(json_tree) < Len(root_list)
    ELSE Len(stack[Len(stack)].children) < Len(stack[Len(stack)].dependencies)

Callee ==
    IF stack = <<>>
    THEN root_list[Len(json_tree) + 1]
    ELSE stack[Len(stack)].dependencies[Len(stack[Len(stack)].children) + 1]

\* Lines 99-104: build_node is called; it returns a memoised node or a node
\* without children at once (lines 101, 106-107), else goes on to line 105.
BuildNodeCall ==
    /\ pc = "tree"
    /\ CanCall
    /\ IF ReturnsAtOnce(Callee, memo, dependency_map)
       THEN LET node == Returned(Callee, memo)
                after == Deliver(stack, json_tree, node)
            IN  /\ memo' = Put(memo, Callee, node)
                /\ stack' = after.stack
                /\ json_tree' = after.json_tree
       ELSE /\ stack' = Append(stack, Frame(Callee, dependency_map))
            /\ UNCHANGED <<memo, json_tree>>
    /\ UNCHANGED <<pc, fs, graphql_files, file_data, type_to_resource_map,
                   dependency_map, ts, csv, level, stdout, root_list>>

\* Lines 105-107: every child is built; the node is memoised and returned.
BuildNodeReturn ==
    /\ pc = "tree"
    /\ stack # <<>>
    /\ ~CanCall
    /\ LET top == stack[Len(stack)]
           node == Node(top.name, top.children)
           after == Deliver(SubSeq(stack, 1, Len(stack) - 1), json_tree, node)
       IN  /\ memo' = Put(memo, top.name, node)
           /\ stack' = after.stack
           /\ json_tree' = after.json_tree
    /\ UNCHANGED <<pc, fs, graphql_files, file_data, type_to_resource_map,
                   dependency_map, ts, csv, level, stdout, root_list>>

\* Lines 111-114.
WriteJson ==
    /\ pc = "tree"
    /\ stack = <<>>
    /\ ~CanCall
    /\ stdout' = stdout \o <<"Generating JSON output", "JSON generation complete.">>
    /\ pc' = "done"
    /\ UNCHANGED <<fs, graphql_files, file_data, type_to_resource_map,
                   dependency_map, ts, csv, level, root_list, memo, stack,
                   json_tree>>

Next ==
    \/ ReadDocuments
    \/ BuildGraph
    \/ PrepareRaises
    \/ PrepareReturns
    \/ LevelIteration
    \/ CsvComplete
    \/ ChooseRoots
    \/ BuildNodeCall
    \/ BuildNodeReturn
    \/ WriteJson

Spec == Init /\ [][Next]_vars

-----------------------------------------------------------------------------
(* Vocabulary of the properties *)

\* dependency_map is built.
GraphBuilt == pc \notin {"read", "graph"}

\* main() has ended: normally, or by the uncaught CycleError.
Terminated == pc \in {"done", "CycleError"}

\* The leveling loop has been left.
CsvWritten == pc \in {"roots", "tree", "done"}

\* The resources: one per document read.
Resources == DOMAIN file_data

\* Every name in the graph: keys and members of dependency sets.
GraphNames(dm) == (DOMAIN dm) \cup UNION {dm[r] : r \in DOMAIN dm}

RECURSIVE ReachFrom(_, _)
ReachFrom(dm, S) ==
    LET more == S \cup UNION {GetDeps(dm, x) : x \in S}
    IN  IF more = S THEN S ELSE ReachFrom(dm, more)

\* The names n depends on, directly or transitively.
Reach(dm, n) == ReachFrom(dm, GetDeps(dm, n))

OnCycle(dm, n) == n \in Reach(dm, n)

Cyclic(dm) == \E n \in DOMAIN dm : OnCycle(dm, n)

\* n lies on a cycle or transitively depends on a name that does.
Blocked(dm, n) == OnCycle(dm, n) \/ \E m \in Reach(dm, n) : OnCycle(dm, m)

Max(S) == CHOOSE x \in S : \A y \in S : y <= x

\* The length of the longest dependency chain below n (n not blocked).
RECURSIVE TightLevel(_, _)
TightLevel(dm, n) ==
    IF GetDeps(dm, n) = {} THEN 0
    ELSE 1 + Max({TightLevel(dm, d) : d \in GetDeps(dm, n)})

RowsOf(rows, n) == {i \in DOMAIN rows : rows[i].resource = n}

HasRow(rows, n) == RowsOf(rows, n) # {}

LevelOf(rows, n) == rows[CHOOSE i \in DOMAIN rows : rows[i].resource = n].level

\* names is the set S as a strictly ascending sequence.
AscendingListOf(names, S) ==
    /\ Range(names) = S
    /\ \A i, j \in DOMAIN names : i < j => Rank(names[i]) < Rank(names[j])

\* Every node occurrence of a tree, as the subtree rooted there.
RECURSIVE Occurrences(_)
Occurrences(tree) ==
    {tree} \cup
    IF "children" \in DOMAIN tree
    THEN UNION {Occurrences(tree.children[i]) : i \in DOMAIN tree.children}
    ELSE {}

AllOccurrences(trees) == UNION {Occurrences(trees[i]) : i \in DOMAIN trees}

ChildNames(node) == [i \in DOMAIN node.children |-> node.children[i].name]

-----------------------------------------------------------------------------
(* Dependency graph construction *)

\* C1, as stated: every member of every resource's dependency set is a
\* resource, the owner (per the ownership map) of a type referenced in that
\* resource's document, and a referenced name without an entry in the
\* ownership map contributes no edge.
C1_TargetsAreOwningResources ==
    GraphBuilt =>
        \A r \in DOMAIN dependency_map :
            /\ \A d \in dependency_map[r] :
                  /\ d \in Resources
                  /\ \E t \in file_data[r] :
                        t \in DOMAIN type_to_resource_map
                        /\ type_to_resource_map[t] = d
            /\ \A t \in file_data[r] :
                  t \notin DOMAIN type_to_resource_map => t \notin dependency_map[r]

\* C1, amended: every member of a dependency set is the name of a type the
\* resource's document references, itself neither a scalar, nor the
\* resource, nor owned by the resource; every such referenced name is a
\* member, whether it has no entry in the ownership map or is owned by
\* another resource (then under its own name, not its owner's).
C1_TargetsAreReferencedTypes ==
    GraphBuilt =>
        \A r \in Resources :
            /\ \A d \in GetDeps(dependency_map, r) :
                  /\ d \in file_data[r]
                  /\ d \notin SCALAR_TYPES
                  /\ d # r
                  /\ Get(type_to_resource_map, d) # r
            /\ \A t \in file_data[r] \ (SCALAR_TYPES \cup {r}) :
                  /\ t \notin DOMAIN type_to_resource_map
                        => t \in GetDeps(dependency_map, r)
                  /\ (t \in DOMAIN type_to_resource_map
                        /\ type_to_resource_map[t] # r)
                        => t \in GetDeps(dependency_map, r)

\* A graph with an edge to a name nobody declares and an edge to a type
\* that another resource owns.
C1_Witness ==
    /\ GraphBuilt
    /\ \E r \in DOMAIN dependency_map : \E d \in dependency_map[r] :
          d \notin DOMAIN type_to_resource_map
    /\ \E r \in DOMAIN dependency_map : \E d \in dependency_map[r] :
          /\ d \in DOMAIN type_to_resource_map
          /\ type_to_resource_map[d] \notin {d, r}

\* Declaration i of the document is its main resource by the marker rule.
MainByMarker(content, i) ==
    \E k \in DOMAIN MarkerInterfaces :
        /\ FirstImplementing(content, MarkerInterfaces[k]) = i
        /\ \A j \in 1..(k - 1) : FirstImplementing(content, MarkerInterfaces[j]) = 0

\* No document listed after position i declares type t.
NotDeclaredLater(i, t) ==
    \A j \in DOMAIN graphql_files :
        j > i => t \notin Range(get_defined_types(fs[graphql_files[j]]))

-----------------------------------------------------------------------------
(* Leveling *)

\* C2: every row written carries level 0 when the node has no dependencies,
\* and otherwise every dependency has its own row already and the level is
\* exactly 1 + the greatest level among them.
C2_LevelIsOnePlusMaxOfDependencies ==
    ~Cyclic(dependency_map) =>
        \A i \in DOMAIN csv :
            LET deps == GetDeps(dependency_map, csv[i].resource)
            IN  IF deps = {}
                THEN csv[i].level = 0
                ELSE /\ \A d \in deps : HasRow(csv, d)
                     /\ csv[i].level = 1 + Max({LevelOf(csv, d) : d \in deps})

\* A finished table with a row at level 2 or above.
C2_Witness ==
    /\ pc = "done"
    /\ \E i \in DOMAIN csv : csv[i].level >= 2

CycleReported == pc = "CycleError" \/ CycleMessage \in Range(stdout)

\* C4: when the graph has a cycle, no row is ever written for a name that
\* lies on a cycle or transitively depends on one, and main() does not end
\* without a cycle error.
C4_CycleReportedNoBlockedRows ==
    (GraphBuilt /\ Cyclic(dependency_map)) =>
        /\ \A i \in DOMAIN csv : ~Blocked(dependency_map, csv[i].resource)
        /\ Terminated => CycleReported

\* main() has ended on a graph where two resources depend on each other.
C4_Witness ==
    /\ Terminated
    /\ \E a, b \in DOMAIN dependency_map :
          a # b /\ b \in dependency_map[a] /\ a \in dependency_map[b]

\* C5: when the graph has a cycle and main() has ended, every name that
\* does not transitively depend on a cycle member has a row with its tight
\* level.
C5_ResolvedLevelsEmitted ==
    (Terminated /\ Cyclic(dependency_map)) =>
        \A n \in GraphNames(dependency_map) :
            ~Blocked(dependency_map, n) =>
                /\ HasRow(csv, n)
                /\ LevelOf(csv, n) = TightLevel(dependency_map, n)

\* The rows main() writes for the directory when it lists it as files.
RowsFor(dir, files) ==
    LET read == ReadFiles(dir, files, Len(files))
        dm == BuildDependencyMap(read.file_data, read.type_to_resource_map)
        t == TopologicalSorter(Graph(dm))
    IN  IF FindCycle(t) THEN <<>>
        ELSE LevelLoop([ts |-> Prepared(t), csv |-> <<>>, level |-> 0,
                        broke |-> FALSE], dm).csv

\* C6: the rows written are those any other listing order of the same
\* directory yields, and within a level they ascend by name.
C6_OrderIndependent ==
    Terminated =>
        /\ \A files \in Listings(fs) : RowsFor(fs, files) = csv
        /\ \A i, j \in DOMAIN csv :
              (i < j /\ csv[i].level = csv[j].level)
              => Rank(csv[i].resource) < Rank(csv[j].resource)

\* C7, as stated: for an acyclic corpus the table has exactly one row for
\* every resource and rows for nothing else, and a resource without
\* outgoing edges has its row at level 0.
C7_OneRowPerResource ==
    (CsvWritten /\ ~Cyclic(dependency_map)) =>
        /\ \A i \in DOMAIN csv : csv[i].resource \in Resources
        /\ \A r \in Resources : Cardinality(RowsOf(csv, r)) = 1
        /\ \A r \in Resources \ DOMAIN dependency_map : LevelOf(csv, r) = 0

\* C7, amended: for an acyclic corpus the table has exactly one row for
\* every name that is a key of the dependency graph or a member of a
\* dependency set, and rows for nothing else; a resource without outgoing
\* edges has a row exactly when some resource depends on it, and then at
\* level 0.
C7_OneRowPerGraphName ==
    (CsvWritten /\ ~Cyclic(dependency_map)) =>
        /\ \A i \in DOMAIN csv : csv[i].resource \in GraphNames(dependency_map)
        /\ \A n \in GraphNames(dependency_map) : Cardinality(RowsOf(csv, n)) = 1
        /\ \A r \in Resources \ DOMAIN dependency_map :
              /\ HasRow(csv, r) <=> \E q \in DOMAIN dependency_map : r \in dependency_map[q]
              /\ HasRow(csv, r) => LevelOf(csv, r) = 0

\* A finished table beside a resource nothing depends on and that depends
\* on nothing (no row), and a resource without outgoing edges that another
\* depends on (a row at level 0).
C7_Witness ==
    /\ pc = "done"
    /\ \E r \in Resources \ DOMAIN dependency_map : ~HasRow(csv, r)
    /\ \E r \in Resources \ DOMAIN dependency_map :
          HasRow(csv, r) /\ LevelOf(csv, r) = 0

-----------------------------------------------------------------------------
(* Tree construction *)

RootNames == [i \in DOMAIN json_tree |-> json_tree[i].name]

\* C8, as stated: the roots are exactly the resources, graph keys and
\* resources without outgoing edges alike, that are in no other resource's
\* dependency set, ascending by name.
C8_RootsAreUnreferencedResources ==
    pc = "done" =>
        AscendingListOf(RootNames,
            {r \in Resources :
                \A q \in DOMAIN dependency_map \ {r} : r \notin dependency_map[q]})

\* C8, amended: the roots are exactly the graph keys (the resources with at
\* least one outgoing edge) that are in no dependency set, ascending by
\* name, one tree each; a resource without outgoing edges is no root.
C8_RootsAreUnreferencedKeys ==
    pc = "done" =>
        /\ AscendingListOf(RootNames,
              {r \in DOMAIN dependency_map :
                  \A q \in DOMAIN dependency_map : r \notin dependency_map[q]})
        /\ \A r \in Resources \ DOMAIN dependency_map : r \notin Range(RootNames)

\* Two trees, beside a resource without edges in either direction.
C8_Witness ==
    /\ pc = "done"
    /\ Len(json_tree) >= 2
    /\ \E r \in Resources :
          r \notin GraphNames(dependency_map)

NoRepeat(frames) ==
    \A i, j \in DOMAIN frames : i # j => frames[i].name # frames[j].name

TreeNotStarted == stack = <<>> /\ memo = EmptyMap /\ json_tree = <<>>

\* C9: when the graph has a cycle, build_node is never called, or no
\* resource is under construction twice on the chain of calls in progress
\* (the recursion cannot go round a cycle).
C9_NoUnboundedRecursion ==
    Cyclic(dependency_map) => (TreeNotStarted \/ NoRepeat(stack))

\* main() has ended on a cyclic graph that has a root to expand.
C9_Witness ==
    /\ Terminated
    /\ Cyclic(dependency_map)
    /\ RootNodes(dependency_map) # {}

\* C10: in the finished trees of an acyclic graph, every occurrence of a
\* node lists as children exactly its dependency set, ascending by name,
\* has no children key exactly when that set is empty, and every resource
\* with dependencies occurs in some tree.
C10_TreesAgreeWithGraph ==
    (pc = "done" /\ ~Cyclic(dependency_map)) =>
        /\ \A node \in AllOccurrences(json_tree) :
              LET deps == GetDeps(dependency_map, node.name)
              IN  /\ ("children" \notin DOMAIN node) <=> deps = {}
                  /\ "children" \in DOMAIN node
                        => AscendingListOf(ChildNames(node), deps)
        /\ \A r \in DOMAIN dependency_map :
              \E node \in AllOccurrences(json_tree) : node.name = r

\* Finished trees where a resource with dependencies occurs under two
\* different children of one node.
C10_Witness ==
    /\ pc = "done"
    /\ \E node \in AllOccurrences(json_tree) :
          /\ "children" \in DOMAIN node
          /\ \E i, j \in DOMAIN node.children :
                /\ i # j
                /\ \E a \in Occurrences(node.children[i]),
                      b \in Occurrences(node.children[j]) :
                      a.name = b.name /\ "children" \in DOMAIN a

====
